---- MODULE Spec2Model ----
(***************************************************************************)
(* A model of the document pipeline of Process_files.py, Claude_as_OCR.py  *)
(* and excel_to_concepts.py: the tabular store kept in an Excel workbook   *)
(* (update_excel_with_json_data), and the per-document pipeline that feeds *)
(* it (process_single_file, process_file_with_combined_ocr,                *)
(* combine_ocr_results).                                                   *)
(*                                                                         *)
(* Text is modelled in two ways.  A filename or an ID is a sequence of     *)
(* character codes: 0..9 are the digits, larger codes stand for the other  *)
(* characters.  A document text or a message is a sequence of words.       *)
(*                                                                         *)
(* pandas with openpyxl: read_excel infers, on every column, a numeric     *)
(* column from cells that all parse as numbers (text cells included) and a *)
(* missing value from a cell holding an NA marker.  Setting a string into  *)
(* a numeric column upcasts the column to object in pandas 2.x and raises  *)
(* TypeError in pandas 3; the installed version is a parameter (upcast).   *)
(***************************************************************************)
EXTENDS Integers, Sequences, FiniteSets, TLC

VARIABLES
    store,      \* the workbook at output_excel_path, as it is on disk
    hist,       \* history: one record per finished update_excel_with_json_data call
    pc,         \* position of the running upsert between its writes to disk
    pending,    \* the running upsert: its call record, as it will end
    killed,     \* history: the upserts cut short by a termination of the process
    upcast,     \* the installed pandas upcasts on an incompatible setitem (2.x)
    ocr,        \* history: the last call of an OCR entry point, with what it did
    files,      \* the files of the directory, in the order the scan returned them
    vocab,      \* concept_mapping of the batch run
    docs,       \* history: what was done for each file handled so far, in order
    artifacts,  \* the JSON files of the output directory, by file stem
    successful_files,  \* the counter of process_client_files
    conv,       \* history: the last call of convert_file_to_png, with what it did
    folder,     \* the run of process_client_files_folder: its files and the disk
    template    \* the template workbook and the concept mapping read from it

batchvars == <<files, vocab, docs, artifacts, successful_files>>

convvars == <<conv, folder>>

vars == <<store, hist, pc, pending, killed, upcast, ocr, batchvars, convvars, template>>

(***************************************************************************)
(* Bounds of the model.                                                    *)
(***************************************************************************)
MaxCalls == 3

\* The most files a scanned directory holds.
MaxFiles == 2

\* The most files the folder of process_client_files_folder holds.
MaxFolderFiles == 2

(***************************************************************************)
(* Characters and digit strings.                                           *)
(***************************************************************************)
Other == 10     \* a character that is not a digit (a letter, '_', '-')

Range(f) == {f[x] : x \in DOMAIN f}

None == <<>>    \* Python's None where a digit string is expected

IsDigit(c) == c \in 0..9

\* DigitRun stopping after one digit.
DigitRun_one_digit(s) ==
    IF s = <<>> \/ ~IsDigit(Head(s)) THEN <<>> ELSE <<Head(s)>>

RECURSIVE DigitRun(_)
\* The longest prefix of s made of digits: what \d+ matches at the start of s.
DigitRun(s) ==
    IF s = <<>> \/ ~IsDigit(Head(s)) THEN <<>>
    ELSE <<Head(s)>> \o DigitRun(Tail(s))

RECURSIVE extract_file_id(_)
\* re.search(r'(\d+)', filename): the leftmost maximal run of digits, or None.
extract_file_id(filename) ==
    IF filename = <<>> THEN None
    ELSE IF IsDigit(Head(filename)) THEN DigitRun(filename)
    ELSE extract_file_id(Tail(filename))

RECURSIVE IntOf(_)
\* The integer a digit string parses to.
IntOf(ds) ==
    IF ds = <<>> THEN 0
    ELSE IntOf(SubSeq(ds, 1, Len(ds) - 1)) * 10 + ds[Len(ds)]

RECURSIVE StrOf(_)
\* str(n) for an integer n >= 0: its decimal digits, no leading zero.
StrOf(n) == IF n < 10 THEN <<n>> ELSE Append(StrOf(n \div 10), n % 10)

(***************************************************************************)
(* Cells, rows, sheets, the workbook.                                      *)
(*   An ID cell is a text cell (a Python str, as update_excel writes it)   *)
(*   or a number cell (an int64, as read_excel reads the column back).     *)
(*   Every other cell is a string: a text, or the text that stands for a   *)
(*   numeric cell; NaN is the empty cell.                                  *)
(*   A sheet (a DataFrame) is its columns in order and its rows in order,  *)
(*   each row a function from its columns to cells.                        *)
(***************************************************************************)
NaN == "<NaN>"
NotFound == "Not found"
IDCol == "ID"
FTCol == "File Type"

TextCell(ds) == [kind |-> "text", ds |-> ds]
NumberCell(n) == [kind |-> "number", ds |-> StrOf(n)]

NoSheets == [s \in {} |-> 0]
\* The concept mapping without items, {}.
NoVocabulary == <<>>
NoArtifacts == [n \in {} |-> 0]
MissingStore == [state |-> "missing", sheets |-> NoSheets]
\* A file that exists and is no workbook (empty or cut short): unreadable.
CorruptStore == [state |-> "corrupt", sheets |-> NoSheets]
OkStore(sheets) == [state |-> "ok", sheets |-> sheets]

EmptyFrame(cols) == [cols |-> cols, rows |-> <<>>]

\* Texts pandas reads as a missing value: members of the default na_values of
\* pd.read_excel (keep_default_na=True), the empty cell among them.
NAValues == {NaN, "", "#N/A", "N/A", "NA", "NULL", "NaN", "n/a", "nan", "null"}

\* A text cell that parses as a number, and the numeric cell it is read as: the
\* leading zero is lost. No text cell of the model has the text of PhoneNumber.
PhoneText == "0521234567"
PhoneNumber == "521234567"

\* pd.read_excel of one sheet, with no dtype and the default NA handling: pandas'
\* type inference works on every column of the parsed cells. A cell holding an
\* NA marker is read as NaN. A column whose other cells all parse as numbers
\* comes back numeric, text cells included, so the ID "07" is read as 7 and a
\* numeric text loses its leading zero; a column with any other text keeps its
\* cells. The ID column holds digit strings only and is always read as numbers.
read_excel(sheet) ==
    LET sanitize_na(cell) == IF cell \in NAValues THEN NaN ELSE cell
        parses_as_number(cell) == cell \in {PhoneText, PhoneNumber}
        to_number(cell) == IF cell = PhoneText THEN PhoneNumber ELSE cell
        parsed(i, k) == sanitize_na(sheet.rows[i][k])
        numeric(k) == \A i \in DOMAIN sheet.rows :
                         parsed(i, k) = NaN \/ parses_as_number(parsed(i, k))
    IN  [cols |-> sheet.cols,
         rows |-> [i \in DOMAIN sheet.rows |->
                     [k \in DOMAIN sheet.rows[i] |->
                         IF k = IDCol THEN NumberCell(IntOf(sheet.rows[i][k].ds))
                         ELSE IF numeric(k) THEN to_number(parsed(i, k))
                         ELSE parsed(i, k)]]]

\* One element of existing_data[sheet_name]['ID'].astype(str).
astype_str(cell) == cell.ds

RECURSIVE Dedupe(_)
\* The keys of a dict filled in the order of s: each key once, at its first place.
Dedupe(s) ==
    IF s = <<>> THEN <<>>
    ELSE LET r == Dedupe(SubSeq(s, 1, Len(s) - 1))
         IN  IF s[Len(s)] \in Range(r) THEN r ELSE Append(r, s[Len(s)])

\* The concept values of one sheet of the vocabulary, in order.
ConceptValues(concepts) == [i \in DOMAIN concepts |-> concepts[i].value]

\* row = {"ID": file_id, "File Type": file_type} plus, for every concept of the
\* sheet, the extracted value or "Not found".
make_row(file_id, file_type, concepts, extracted_data) ==
    LET keys == Dedupe(<<IDCol, FTCol>> \o ConceptValues(concepts))
    IN  [keys |-> keys,
         val  |-> [k \in Range(keys) |->
                     IF k \in Range(ConceptValues(concepts))
                     THEN IF k \in DOMAIN extracted_data THEN extracted_data[k]
                          ELSE NotFound
                     ELSE IF k = IDCol THEN TextCell(file_id)
                     ELSE file_type]]

\* existing_ids: the ID column as strings.
existing_ids(df) == {astype_str(df.rows[i][IDCol]) : i \in DOMAIN df.rows}

\* df.index[df['ID'].astype(str) == file_id].tolist()[0]: the first matching row.
first_index(df, file_id) ==
    CHOOSE i \in DOMAIN df.rows :
        /\ astype_str(df.rows[i][IDCol]) = file_id
        /\ \A j \in 1..(i - 1) : astype_str(df.rows[j][IDCol]) # file_id

\* for key, value in row.items(): if key in df.columns: df.at[idx, key] = value
update_row(df, idx, row) ==
    [cols |-> df.cols,
     rows |-> [i \in DOMAIN df.rows |->
                 IF i # idx THEN df.rows[i]
                 ELSE [k \in DOMAIN df.rows[i] |->
                         IF k \in Range(row.keys) THEN row.val[k]
                         ELSE df.rows[i][k]]]]

\* pd.concat([df, pd.DataFrame([row])], ignore_index=True): the union of the
\* columns (the sheet's first), the row appended, NaN where a row has no value.
concat(df, row) ==
    LET cols == df.cols \o SelectSeq(row.keys, LAMBDA k : k \notin Range(df.cols))
        widen(r) == [k \in Range(cols) |-> IF k \in DOMAIN r THEN r[k] ELSE NaN]
    IN  [cols |-> cols,
         rows |-> [i \in 1..(Len(df.rows) + 1) |->
                     IF i <= Len(df.rows) THEN widen(df.rows[i])
                     ELSE widen(row.val)]]

\* The update of one sheet: update the row of file_id in place, or append.
upsert_sheet(df, row, file_id) ==
    IF IDCol \in Range(df.cols)
    THEN IF file_id \in existing_ids(df)
         THEN update_row(df, first_index(df, file_id), row)
         ELSE concat(df, row)
    ELSE concat(df, row)

\* df.at[idx, 'ID'] = file_id on the int64 column read_excel returned: whether
\* the update of this sheet raises (pandas 3) instead of upcasting (pandas 2.x).
setitem_raises(df, file_id, upcasts) ==
    /\ ~upcasts
    /\ IDCol \in Range(df.cols)
    /\ file_id \in existing_ids(df)

\* updated_sheets keeping only the vocabulary's sheets, as the bootstrap case does.
updated_sheets_vocabulary_only(sheets, json_data, concept_mapping) ==
    [s \in DOMAIN concept_mapping |->
        upsert_sheet(IF s \in DOMAIN sheets THEN read_excel(sheets[s])
                     ELSE EmptyFrame(<<IDCol, FTCol>>),
                     make_row(json_data.id, json_data.file_type,
                              concept_mapping[s], json_data.data),
                     json_data.id)]

\* existing_data after the loop over concept_mapping: every sheet of the
\* workbook as read, the vocabulary's sheets upserted (created with the two
\* identity columns when the workbook has none of that name).
updated_sheets(sheets, json_data, concept_mapping) ==
    [s \in DOMAIN sheets \cup DOMAIN concept_mapping |->
        IF s \in DOMAIN concept_mapping
        THEN upsert_sheet(IF s \in DOMAIN sheets THEN read_excel(sheets[s])
                          ELSE EmptyFrame(<<IDCol, FTCol>>),
                          make_row(json_data.id, json_data.file_type,
                                   concept_mapping[s], json_data.data),
                          json_data.id)
        ELSE read_excel(sheets[s])]

\* sheet_data of the bootstrap case: one sheet per vocabulary sheet, one row.
new_sheets(json_data, concept_mapping) ==
    [s \in DOMAIN concept_mapping |->
        LET row == make_row(json_data.id, json_data.file_type,
                            concept_mapping[s], json_data.data)
        IN  [cols |-> row.keys, rows |-> <<row.val>>]]

\* create_empty_workbook(sheet_names, output_path): a workbook of sheets with no
\* cell. With no sheet name openpyxl refuses to save and leaves a file that is
\* no workbook.
create_empty_workbook(sheet_names) ==
    IF sheet_names = {} THEN CorruptStore
    ELSE OkStore([s \in sheet_names |-> EmptyFrame(<<>>)])

\* with pd.ExcelWriter(output_excel_path) as writer: df.to_excel(...) for every
\* sheet. The file is opened for writing (cut to nothing) on entry and saved on
\* exit; a workbook without a sheet cannot be saved.
written(sheets) == IF DOMAIN sheets = {} THEN CorruptStore ELSE OkStore(sheets)

\* The call raises before it opens the file for writing: pd.ExcelFile on a file
\* that is no workbook, or a refused setitem in the loop over the sheets.
raises_before_write(st, json_data, concept_mapping, upcasts) ==
    \/ st.state = "corrupt"
    \/ /\ st.state = "ok"
       /\ \E s \in DOMAIN concept_mapping \cap DOMAIN st.sheets :
             setitem_raises(read_excel(st.sheets[s]), json_data.id, upcasts)

\* update_excel_with_json_data as one step: the store it leaves and what it
\* returns (False when an exception was caught).
update_excel_with_json_data(st, json_data, concept_mapping, upcasts) ==
    IF raises_before_write(st, json_data, concept_mapping, upcasts)
    THEN [store |-> st, ret |-> FALSE]
    ELSE LET w == IF st.state = "ok"
                  THEN written(updated_sheets(st.sheets, json_data,
                                              concept_mapping))
                  ELSE written(new_sheets(json_data, concept_mapping))
         IN  [store |-> w, ret |-> w.state = "ok"]

(***************************************************************************)
(* The inputs the model draws from.                                        *)
(***************************************************************************)
\* File names without their extension: r7, r07, 8_7, and one without a digit.
FileStems ==
    {<<Other, 7>>, <<Other, 0, 7>>, <<8, Other, 7>>, <<Other>>}

FileIds == {extract_file_id(n) : n \in FileStems} \ {None}

\* Vocabularies as excel_to_concept_mapping returns them: none (the template
\* could not be read), and a template before and after it gained a concept and
\* changed its sheet.
Concept(i, v) == [id |-> i, value |-> v]

Vocabularies ==
    { NoSheets,
      [s \in {"Languages"} |-> <<Concept(1, "Hebrew")>>],
      [s \in {"Languages"} |-> <<Concept(1, "Hebrew"), Concept(2, "English")>>],
      [s \in {"Skills"} |-> <<Concept(1, "English")>>] }

\* What process_single_file extracted from a document: the mapping returned by
\* extract_aspects_with_claude (concept value -> string) and file_extension[1:].
Extractions ==
    { [data |-> [c \in {"Hebrew", "English"} |-> "yes"], file_type |-> "pdf"],
      [data |-> [c \in {"Hebrew"} |-> "no"], file_type |-> "docx"] }

\* An extraction whose values pandas does not read back as they were written:
\* a numeric text (a phone number) and a default NA marker.
UnstableExtraction ==
    [data |-> [c \in {"Hebrew", "English"} |->
                  IF c = "Hebrew" THEN PhoneText ELSE "N/A"],
     file_type |-> "pdf"]

\* The json_data process_single_file returns.
JsonData ==
    {[id |-> i, data |-> e.data, file_type |-> e.file_type] :
        i \in FileIds, e \in Extractions}

(***************************************************************************)
(* Reconciliation of the OCR results (Claude_as_OCR.py).                   *)
(*   A text is a sequence of words.  A value of the ocr_results mapping is *)
(*   a str or something else (None); the mapping is the sequence of its    *)
(*   (method, value) items in the order a dict iterates them.              *)
(*   world is what the collaborators do in one call: whether the client    *)
(*   can be built, what the fusion call answers, what the providers of     *)
(*   OCR_Combined return.                                                  *)
(***************************************************************************)
Str(text) == [str |-> TRUE, text |-> text]
NotStr == [str |-> FALSE, text |-> <<>>]
Item(method, value) == [method |-> method, value |-> value]

\* text.startswith(prefix), for a prefix of one word.
startswith(text, prefix) == Len(text) >= 1 /\ text[1] = prefix

\* word.lower(), on the words of the sample texts.
lower(word) == IF word \in {"Hebrew", "HEBREW", "hebrew"} THEN "hebrew" ELSE word

\* "hebrew" in value.lower()
mentions_hebrew(text) == \E i \in DOMAIN text : lower(text[i]) = "hebrew"

\* The filter of the loop that adds the OCR results to the prompt.
usable(value) ==
    /\ value.str
    /\ ~startswith(value.text, "Failed")
    /\ ~startswith(value.text, "Error")

\* f"Error combining OCR results with Claude: {str(e)}"
ErrorCombining == <<"Error", "combining", "OCR", "results", "with", "Claude:", "<e>">>

\* f"Error processing file with combined OCR: {str(e)}"
ErrorProcessing == <<"Error", "processing", "file", "with", "combined", "OCR:", "<e>">>

\* f"Unsupported file type: {file_extension}"
Unsupported(file_extension) == <<"Unsupported", "file", "type:", file_extension>>

NoPrompt == [sent |-> FALSE]

\* The prompt combine_ocr_results builds: the file type and language lines it
\* adds and the extractions that passed the filter, in order.
build_prompt(ocr_results, file_type, language) ==
    [sent        |-> TRUE,
     file_type   |-> file_type,
     language    |-> language,
     rtl_note    |-> language # "" /\ lower(language) = "hebrew",
     extractions |-> SelectSeq(ocr_results, LAMBDA it : usable(it.value))]

\* combine_ocr_results issuing the fusion call a second time when it raises.
combine_ocr_results_retrying(ocr_results, file_type, language, world) ==
    IF world.client_raises
    THEN [text |-> ErrorCombining, fusion_calls |-> 0, prompt |-> NoPrompt]
    ELSE [text |-> IF world.fusion.raises THEN ErrorCombining ELSE world.fusion.text,
          fusion_calls |-> IF world.fusion.raises THEN 2 ELSE 1,
          prompt |-> build_prompt(ocr_results, file_type, language)]

\* combine_ocr_results: the text it returns, the fusion calls it made and the
\* prompt it sent. Any exception becomes the "Error combining" message.
combine_ocr_results(ocr_results, file_type, language, world) ==
    IF world.client_raises
    THEN [text |-> ErrorCombining, fusion_calls |-> 0, prompt |-> NoPrompt]
    ELSE [text |-> IF world.fusion.raises THEN ErrorCombining ELSE world.fusion.text,
          fusion_calls |-> 1,
          prompt |-> build_prompt(ocr_results, file_type, language)]

\* file_extension.lower(), on the sample extensions.
ext_lower(file_extension) == IF file_extension = ".PDF" THEN ".pdf" ELSE file_extension

\* file_extension.lower().replace('.', '')
file_type_of(file_extension) ==
    CASE ext_lower(file_extension) = ".pdf" -> "pdf"
      [] ext_lower(file_extension) = ".png" -> "png"
      [] ext_lower(file_extension) = ".docx" -> "docx"
      [] ext_lower(file_extension) = ".doc" -> "doc"
      [] ext_lower(file_extension) = ".txt" -> "txt"
      [] ext_lower(file_extension) = ".jpg" -> "jpg"
      [] ext_lower(file_extension) = ".jpeg" -> "jpeg"
      [] ext_lower(file_extension) = ".gif" -> "gif"
      [] ext_lower(file_extension) = ".webp" -> "webp"
      [] ext_lower(file_extension) = ".tiff" -> "tiff"
      [] OTHER -> ""

\* ocr_results["Note"] when the mapping has that entry.
HasNote(ocr_results) == \E i \in DOMAIN ocr_results : ocr_results[i].method = "Note"
NoteOf(ocr_results) ==
    ocr_results[CHOOSE i \in DOMAIN ocr_results : ocr_results[i].method = "Note"].value

\* detect_language looking at the first entry of the mapping only.
detect_language_first_entry(ocr_results) ==
    IF /\ ocr_results # <<>>
       /\ ocr_results[1].value.str /\ mentions_hebrew(ocr_results[1].value.text)
    THEN "hebrew" ELSE "english"

\* The language detected from the results when none is set yet.
detect_language(ocr_results) ==
    IF \E i \in DOMAIN ocr_results :
          ocr_results[i].value.str /\ mentions_hebrew(ocr_results[i].value.text)
    THEN "hebrew" ELSE "english"

\* process_file_with_combined_ocr(file_path, ocr_results): the text it returns,
\* whether it reached combine_ocr_results and with which arguments.
process_file_with_combined_ocr(file_extension, given, world) ==
    LET ext == ext_lower(file_extension)
        fetch == given = <<>>
        returned(text) == [text |-> text, combined |-> FALSE, language |-> "",
                           ocr_results |-> <<>>, fusion_calls |-> 0,
                           prompt |-> NoPrompt]
    IN  IF fetch /\ ~world.providers.imports THEN returned(ErrorProcessing)
        ELSE IF fetch /\ ext \notin {".png", ".pdf", ".docx"}
        THEN returned(Unsupported(file_extension))
        ELSE IF fetch /\ world.providers.raises THEN returned(ErrorProcessing)
        ELSE IF /\ fetch /\ ext = ".docx"
                /\ HasNote(world.providers.results)
                /\ ~NoteOf(world.providers.results).str
        THEN returned(ErrorProcessing)
        ELSE LET ocr_results == IF fetch THEN world.providers.results ELSE given
                 language ==
                     IF fetch /\ ext = ".docx"
                     THEN IF /\ HasNote(ocr_results)
                             /\ mentions_hebrew(NoteOf(ocr_results).text)
                          THEN "hebrew" ELSE "english"
                     ELSE detect_language(ocr_results)
                 c == combine_ocr_results(ocr_results, file_type_of(file_extension),
                                          language, world)
             IN  [text |-> c.text, combined |-> TRUE, language |-> language,
                  ocr_results |-> ocr_results, fusion_calls |-> c.fusion_calls,
                  prompt |-> c.prompt]

\* Sample texts.
DocText == <<"curriculum", "vitae">>
HebrewDocText == <<"resume", "in", "Hebrew">>
ErrorClaude == <<"Error", "processing", "file", "with", "Claude:", "<e>">>
ErrorHebrew == <<"Error", "processing", "Hebrew", "file">>
FailedDoc == <<"Failed", "to", "convert", "DOC", "file:", "<path>">>
UnsupportedClaude == <<"Unsupported", "file", "type", "for", "Claude:", ".docx">>

\* Sample result mappings: what the providers return, or a caller passes.
OcrResults ==
    { <<>>,
      <<Item("Claude", Str(DocText)), Item("DocumentAI", Str(DocText))>>,
      <<Item("Claude", Str(ErrorClaude)), Item("DocumentAI", Str(HebrewDocText))>>,
      <<Item("Claude", Str(ErrorClaude)), Item("DocumentAI", Str(FailedDoc))>>,
      <<Item("Claude", Str(ErrorHebrew)), Item("DocumentAI", Str(DocText))>>,
      <<Item("Claude", Str(UnsupportedClaude)), Item("DocumentAI", NotStr)>>,
      <<Item("Note", Str(<<"language:", "Hebrew">>)), Item("python-docx", Str(DocText))>>,
      <<Item("python-docx", Str(HebrewDocText)), Item("Note", Str(<<"language:", "English">>))>>,
      <<Item("Claude", Str(ErrorClaude)), Item("DocumentAI", Str(DocText))>> }

\* What the fusion call does: it answers a text (possibly empty) or raises.
FusionOutcomes ==
    { [raises |-> FALSE, text |-> <<"curriculum", "vitae", "fused">>],
      [raises |-> FALSE, text |-> <<>>],
      [raises |-> TRUE, text |-> <<>>] }

\* What OCR_Combined does: the import fails, the provider function of the file
\* type raises, or it returns a result mapping.
NoProviders == [imports |-> FALSE, raises |-> FALSE, results |-> <<>>]

ProviderOutcomes ==
    {[imports |-> TRUE, raises |-> FALSE, results |-> r] :
        r \in OcrResults
               \cup {<<Item("Note", NotStr), Item("python-docx", Str(HebrewDocText))>>}}
        \cup {[imports |-> TRUE, raises |-> TRUE, results |-> <<>>], NoProviders}

CombineWorlds ==
    [client_raises : BOOLEAN, fusion : FusionOutcomes, providers : {NoProviders}]

Worlds ==
    [client_raises : BOOLEAN, fusion : FusionOutcomes, providers : ProviderOutcomes]

FileExtensions == {".pdf", ".PDF", ".png", ".docx", ".doc", ".txt"}

NoOcrCall == [fn |-> "none"]

(***************************************************************************)
(* The template workbook (excel_to_concepts.py).                           *)
(*   A sheet is its rows as xls.parse(sheet, header=None) returns them,    *)
(*   every row a tuple of as many cells as the sheet has columns.  A cell  *)
(*   is blank (NaN), a number or a string.                                 *)
(***************************************************************************)
Blank == [kind |-> "blank"]
IdCell(n) == [kind |-> "int", n |-> n]
ValueCell(s) == [kind |-> "str", s |-> s]

\* str.strip(), on the sample values.
strip(s) == IF s = " English " THEN "English" ELSE s

\* df.dropna(how='all').reset_index(drop=True)
dropna_all(rows) ==
    SelectSeq(rows, LAMBDA r : \E k \in DOMAIN r : r[k] # Blank)

\* raw_vals.dropna().astype(str).str.strip().tolist()
clean_values(raw_vals) ==
    LET kept == SelectSeq(raw_vals, LAMBDA c : c # Blank)
    IN  [i \in DOMAIN kept |-> strip(kept[i].s)]

Min(a, b) == IF a <= b THEN a ELSE b

\* The pairs of one sheet with at least two rows that are not empty: the IDs of
\* the first column (the row index when the sheet has one column) zipped with
\* the cleaned values.
sheet_pairs(rows) ==
    LET df == dropna_all(rows)
        data == SubSeq(df, 2, Len(df))
        two_columns == Len(df[1]) >= 2
        ids == [i \in DOMAIN data |->
                   IF two_columns THEN data[i][1] ELSE IdCell(i - 1)]
        raw_vals == [i \in DOMAIN data |->
                        IF two_columns THEN data[i][2] ELSE data[i][1]]
        vals == clean_values(raw_vals)
    IN  [i \in 1..Min(Len(ids), Len(vals)) |-> [id |-> ids[i], value |-> vals[i]]]

\* excel_to_concept_mapping: {} when the workbook cannot be read, else the
\* pairs of every sheet with data, the sheets without pairs removed.
excel_to_concept_mapping(workbook) ==
    IF ~workbook.readable THEN NoSheets
    ELSE LET kept == {s \in DOMAIN workbook.sheets :
                         /\ Len(dropna_all(workbook.sheets[s])) >= 2
                         /\ sheet_pairs(workbook.sheets[s]) # <<>>}
         IN  [s \in kept |-> sheet_pairs(workbook.sheets[s])]

\* The most data rows a sheet of the template holds.
MaxRows == 2

Header == <<ValueCell("id"), ValueCell("value")>>

\* The rows below the header of a sheet with two columns.
DataRows ==
    {<<i, v>> : i \in {IdCell(1), IdCell(2), Blank},
                v \in {ValueCell("Hebrew"), ValueCell(" English "), Blank}}

\* Sheets: empty, a header alone, a header and data rows, one column.
TemplateSheets ==
    {<<>>}
      \cup UNION {{<<Header>> \o d : d \in [1..k -> DataRows]} : k \in 0..MaxRows}
      \cup {<<<<ValueCell("value")>>, <<ValueCell("Hebrew")>>, <<Blank>>,
              <<ValueCell(" English ")>>>>}

Workbooks ==
    {[readable |-> TRUE, sheets |-> [s \in {"Languages"} |-> sh]] :
        sh \in TemplateSheets}
      \cup {[readable |-> TRUE,
             sheets |-> [s \in {"Languages", "Skills"} |->
                            IF s = "Languages" THEN sh
                            ELSE <<Header, <<IdCell(1), ValueCell("Hebrew")>>>>]] :
               sh \in {<<>>, <<Header>>,
                       <<Header, <<IdCell(1), Blank>>>>}}
      \cup {[readable |-> FALSE, sheets |-> NoSheets]}

NoTemplate == [workbook |-> [readable |-> FALSE, sheets |-> NoSheets],
               read |-> FALSE, mapping |-> NoSheets]

(***************************************************************************)
(* The provider functions (debug_OCR_by_claude.py,                         *)
(* debug_OCR_GCP_DocumentAI.py).  The outcome of a function is the text it *)
(* returns or an exception that leaves it; world says which step of the    *)
(* body fails, if any.                                                     *)
(***************************************************************************)
Returns(text) == [raised |-> FALSE, text |-> text]
Raises == [raised |-> TRUE, text |-> <<>>]

\* The extensions get_mime_type of each provider maps to a MIME type.
ClaudeMimeTypes == {".png", ".jpg", ".jpeg", ".gif", ".webp"}
DocumentAIMimeTypes ==
    {".pdf", ".png", ".jpg", ".jpeg", ".gif", ".tiff", ".docx", ".doc"}

\* f"Unsupported file type for Claude: {file_extension}"
UnsupportedForClaude(file_extension) ==
    <<"Unsupported", "file", "type", "for", "Claude:", file_extension>>

\* f"Unsupported file type for Document AI: {file_extension}"
UnsupportedForDocumentAI(file_extension) ==
    <<"Unsupported", "file", "type", "for", "Document", "AI:", file_extension>>

\* f"Error processing file with Document AI: {str(e)}"
ErrorDocumentAI == <<"Error", "processing", "file", "with", "Document", "AI:", "<e>">>

\* The try block of extract_text_with_claude: the client, the MIME type, the
\* file read, the request.
claude_body(file_extension, world) ==
    IF world = "client raises" THEN Raises
    ELSE IF ext_lower(file_extension) \notin ClaudeMimeTypes
    THEN Returns(UnsupportedForClaude(file_extension))
    ELSE IF world \in {"open raises", "api raises"} THEN Raises
    ELSE Returns(IF world = "text" THEN DocText ELSE <<>>)

\* extract_text_with_claude without its except clause.
extract_text_with_claude_uncaught(file_extension, world) ==
    claude_body(file_extension, world)

extract_text_with_claude(file_extension, world) ==
    IF claude_body(file_extension, world).raised THEN Returns(ErrorClaude)
    ELSE claude_body(file_extension, world)

\* The try block of extract_text_with_documentai: the MIME type, the file read,
\* the client, the request.
documentai_body(file_extension, world) ==
    IF ext_lower(file_extension) \notin DocumentAIMimeTypes
    THEN Returns(UnsupportedForDocumentAI(file_extension))
    ELSE IF world \in {"open raises", "client raises", "api raises"} THEN Raises
    ELSE Returns(IF world = "text" THEN DocText ELSE <<>>)

extract_text_with_documentai(file_extension, world) ==
    IF documentai_body(file_extension, world).raised THEN Returns(ErrorDocumentAI)
    ELSE documentai_body(file_extension, world)

\* What the collaborators of a provider do in one call.
ProviderWorlds == {"text", "empty", "client raises", "open raises", "api raises"}

ProviderExtensions == {".png", ".jpg", ".pdf", ".docx", ".txt"}

(***************************************************************************)
(* Conversion to a raster image (debug_OCR_THROW_PNG.py).                  *)
(*   A conversion threads a record through its strategies: the temporary   *)
(*   files created so far (their kinds, in order of creation), those still *)
(*   on disk, the strategies attempted, the Word instances started and     *)
(*   quit, and the text drawn into the image it returns.  A path is the    *)
(*   input file or a temporary file; None is no path.  world says what     *)
(*   each tool of the installation does when a strategy uses it.           *)
(***************************************************************************)
InputPath == <<"input">>
TempPath(i) == <<"tmp", i>>

NoTemps == [created |-> <<>>, left |-> {}, attempts |-> <<>>,
            word_started |-> 0, word_quit |-> 0, rendered |-> "none"]

\* tempfile.NamedTemporaryFile(suffix=..., delete=False): a new file on disk.
NewTemp(st, kind) ==
    [st EXCEPT !.created = Append(@, kind), !.left = @ \cup {Len(st.created) + 1}]

\* The path of the temporary file created last.
LastTemp(st) == TempPath(Len(st.created))

\* os.remove(path) of a temporary file.
Remove(st, path) == [st EXCEPT !.left = @ \ {path[2]}]

Attempt(st, strategy) == [st EXCEPT !.attempts = Append(@, strategy)]

Returned(ret, st) == [ret |-> ret, st |-> st]

\* win32com.client.Dispatch("Word.Application"), and word.Quit().
StartWord(st) == [st EXCEPT !.word_started = @ + 1]
QuitWord(st) == [st EXCEPT !.word_quit = @ + 1]

\* "Error extracting text from document.", "Could not extract text from DOC
\* file. ...": what extract_text_from_docx and extract_text_from_doc return
\* when they fail.
FailureMessage == "failure message"

\* The image returned was drawn from a text.
Rendered(out, text) ==
    IF out.ret # None THEN Returned(out.ret, [out.st EXCEPT !.rendered = text])
    ELSE out

\* convert_pdf_to_png_with_pymupdf: the page rendered into a temporary PNG,
\* or None.
convert_pdf_to_png_with_pymupdf(st, world) ==
    LET s == Attempt(st, "PyMuPDF")
    IN  CASE world.pymupdf = "ok" ->
                 Returned(LastTemp(NewTemp(s, "png")), NewTemp(s, "png"))
          [] world.pymupdf = "save raises" -> Returned(None, NewTemp(s, "png"))
          [] OTHER -> Returned(None, s)

\* The ImageMagick strategy without its try: a failure of the tool leaves the
\* function as an exception.
convert_with_imagemagick_uncaught(st, world) ==
    LET s == NewTemp(Attempt(st, "ImageMagick"), "png")
    IN  IF world.magick = "ok" THEN Returned(LastTemp(s), s)
        ELSE Returned(<<"raised">>, s)

\* The ImageMagick strategy of convert_pdf_to_png: the temporary PNG is
\* reserved before the tool is run.
convert_with_imagemagick(st, world) ==
    LET s == NewTemp(Attempt(st, "ImageMagick"), "png")
    IN  IF world.magick = "ok" THEN Returned(LastTemp(s), s) ELSE Returned(None, s)

\* convert_pdf_to_png with PyMuPDF tried before pdf2image.
convert_pdf_to_png_pymupdf_first(st, world) ==
    LET first == convert_pdf_to_png_with_pymupdf(st, world)
    IN  IF first.ret # None THEN first
        ELSE LET s == Attempt(first.st, "pdf2image")
                 second == CASE world.pdf2image = "ok" ->
                                   Returned(LastTemp(NewTemp(s, "png")), NewTemp(s, "png"))
                            [] world.pdf2image = "save raises" ->
                                   Returned(None, NewTemp(s, "png"))
                            [] OTHER -> Returned(None, s)
             IN  IF second.ret # None THEN second
                 ELSE convert_with_imagemagick(second.st, world)

\* convert_pdf_to_png: pdf2image, then PyMuPDF, then ImageMagick.
convert_pdf_to_png(st, world) ==
    LET s == Attempt(st, "pdf2image")
        first == CASE world.pdf2image = "ok" ->
                          Returned(LastTemp(NewTemp(s, "png")), NewTemp(s, "png"))
                   [] world.pdf2image = "save raises" ->
                          Returned(None, NewTemp(s, "png"))
                   [] OTHER -> Returned(None, s)
    IN  IF first.ret # None THEN first
        ELSE LET second == convert_pdf_to_png_with_pymupdf(first.st, world)
             IN  IF second.ret # None THEN second
                 ELSE convert_with_imagemagick(second.st, world)

\* create_text_image: the text drawn into a temporary PNG, or None.
create_text_image(st, world) ==
    LET s == Attempt(st, "text image")
    IN  CASE world.textimage = "ok" ->
                 Returned(LastTemp(NewTemp(s, "png")), NewTemp(s, "png"))
          [] world.textimage = "save raises" -> Returned(None, NewTemp(s, "png"))
          [] OTHER -> Returned(None, s)

\* create_pdf_from_text: the temporary PDF is reserved before it is built.
create_pdf_from_text(st, world) ==
    CASE world.textpdf = "ok" ->
             Returned(LastTemp(NewTemp(st, "pdf")), NewTemp(st, "pdf"))
      [] world.textpdf = "build raises" -> Returned(None, NewTemp(st, "pdf"))
      [] OTHER -> Returned(None, st)

\* "Extract text and create an image", the last method of convert_docx_to_png
\* and of convert_doc_to_png.
convert_through_text(st, world) ==
    LET s == Attempt(st, "text")
    IN  IF world.text = "empty" THEN Returned(None, s)
        ELSE LET pdf == create_pdf_from_text(s, world)
             IN  IF pdf.ret = None
                 THEN Rendered(create_text_image(pdf.st, world), world.text)
                 ELSE LET png == convert_pdf_to_png(pdf.st, world)
                          cleaned == Remove(png.st, pdf.ret)
                      IN  IF png.ret # None
                          THEN Rendered(Returned(png.ret, cleaned), world.text)
                          ELSE Rendered(create_text_image(cleaned, world), world.text)

\* "Word COM interface", the first method of convert_docx_to_png and of
\* convert_doc_to_png: the temporary PDF is reserved before Word is started;
\* word.Visible is set outside the try whose finally clause quits Word, the
\* document is opened and saved inside it.
convert_through_word(st, world) ==
    LET s == Attempt(st, "Word")
    IN  CASE world.word = "no import" -> Returned(None, s)
          [] world.word = "visible raises" ->
               Returned(None, StartWord(NewTemp(s, "pdf")))
          [] world.word = "fails" ->
               Returned(None, QuitWord(StartWord(NewTemp(s, "pdf"))))
          [] OTHER ->
               LET t == StartWord(NewTemp(s, "pdf"))
                   png == convert_pdf_to_png(t, world)
               IN  Returned(png.ret, QuitWord(Remove(png.st, LastTemp(t))))

convert_docx_to_png(st, world) ==
    LET first == convert_through_word(st, world)
    IN  IF first.ret # None THEN first ELSE convert_through_text(first.st, world)

\* convert_doc_to_png: through Word to a PDF, through Word to a DOCX handed to
\* convert_docx_to_png, then through the text.
convert_doc_to_png(st, world) ==
    LET first == convert_through_word(st, world)
    IN  IF first.ret # None THEN first
        ELSE LET s == Attempt(first.st, "Word to DOCX")
                 second ==
                     CASE world.word = "no import" -> Returned(None, s)
                       [] world.word = "visible raises" ->
                            Returned(None, StartWord(NewTemp(s, "docx")))
                       [] world.word_docx = "fails" ->
                            Returned(None, QuitWord(StartWord(NewTemp(s, "docx"))))
                       [] OTHER ->
                            LET t == StartWord(NewTemp(s, "docx"))
                                png == convert_docx_to_png(t, world)
                            IN  Returned(png.ret,
                                         QuitWord(Remove(png.st, LastTemp(t))))
             IN  IF second.ret # None THEN second
                 ELSE convert_through_text(second.st, world)

\* The extensions convert_file_to_png takes for images.
ImageExtensions == {".png", ".jpg", ".jpeg", ".gif", ".webp"}

\* convert_file_to_png: the image of the file, the file itself when it is an
\* image, or None.
convert_file_to_png(file_extension, world) ==
    LET ext == ext_lower(file_extension)
    IN  CASE ext = ".pdf" -> convert_pdf_to_png(NoTemps, world)
          [] ext = ".docx" -> convert_docx_to_png(NoTemps, world)
          [] ext = ".doc" -> convert_doc_to_png(NoTemps, world)
          [] ext \in ImageExtensions -> Returned(InputPath, NoTemps)
          [] OTHER -> Returned(None, NoTemps)

\* What the tools of an installation do.
ConvertWorlds ==
    [pdf2image : {"ok", "empty", "raises", "save raises"},
     pymupdf   : {"ok", "no pages", "raises", "save raises"},
     magick    : {"ok", "raises"},
     word      : {"no import", "visible raises", "fails", "saved"},
     word_docx : {"fails", "saved"},
     text      : {"text", "empty", FailureMessage},
     textpdf   : {"ok", "no import", "build raises"},
     textimage : {"ok", "raises", "save raises"}]

ConvertExtensions == {".pdf", ".PDF", ".docx", ".doc", ".png", ".jpg", ".txt"}

\* convert_doc_to_docx of debug_OCR_by_file_type.py: Word is started, the
\* document opened, saved as DOCX and closed, and Word quit, in one try block
\* without a finally clause.
ConvertedDocx == <<"converted">>

convert_doc_to_docx(world) ==
    CASE world \in {"no import", "dispatch raises"} -> Returned(None, NoTemps)
      [] world \in {"visible raises", "open raises", "save raises"} ->
           Returned(None, StartWord(NoTemps))
      [] OTHER -> Returned(ConvertedDocx, QuitWord(StartWord(NoTemps)))

WordOutcomes ==
    {"no import", "dispatch raises", "visible raises", "open raises",
     "save raises", "saved"}

NoConvCall == [fn |-> "none"]

NoFolder ==
    [files |-> <<>>, done |-> <<>>, inputs |-> {}, temps |-> {}, aborted |-> FALSE]

(***************************************************************************)
(* The store under a sequence of upserts, each taken as one step.          *)
(***************************************************************************)
Call(json_data, concept_mapping, pre, post, ret) ==
    [json_data |-> json_data, concept_mapping |-> concept_mapping,
     pre |-> pre, post |-> post, ret |-> ret]

Init ==
    /\ store = MissingStore
    /\ hist = <<>>
    /\ pc = "idle"
    /\ pending = Call(NoSheets, NoSheets, MissingStore, MissingStore, FALSE)
    /\ killed = <<>>
    /\ upcast \in BOOLEAN
    /\ ocr = NoOcrCall
    /\ files = <<>>
    /\ vocab = NoVocabulary
    /\ docs = <<>>
    /\ artifacts = NoArtifacts
    /\ successful_files = 0
    /\ conv = NoConvCall
    /\ folder = NoFolder
    /\ template = NoTemplate

Upsert(json_data, concept_mapping) ==
    /\ pc = "idle"
    /\ Len(hist) < MaxCalls
    /\ LET r == update_excel_with_json_data(store, json_data, concept_mapping, upcast)
       IN  /\ store' = r.store
           /\ hist' = Append(hist, Call(json_data, concept_mapping, store,
                                        r.store, r.ret))
    /\ UNCHANGED <<pc, pending, killed, upcast, ocr, batchvars, convvars, template>>

Next == \E j \in JsonData, m \in Vocabularies : Upsert(j, m)

Spec == Init /\ [][Next]_vars

\* The same with the pandas the repository was written against (2.x).
InitUpcast == Init /\ upcast = TRUE

SpecUpcast == InitUpcast /\ [][Next]_vars

\* The same again, with the document r7 and the extraction whose values do not
\* survive a read among the inputs.
NextReadBack ==
    \E j \in JsonData \cup {[id |-> extract_file_id(<<Other, 7>>),
                             data |-> UnstableExtraction.data,
                             file_type |-> UnstableExtraction.file_type]},
       m \in Vocabularies : Upsert(j, m)

SpecReadBack == InitUpcast /\ [][NextReadBack]_vars

(***************************************************************************)
(* The same upsert, one step per change of the file on disk, in a process  *)
(* that can be terminated between two of them.                             *)
(*   bootstrap: create_empty_workbook saves the empty sheets ("created");  *)
(*   then, as for an existing store, pd.ExcelWriter opens the file for     *)
(*   writing, which cuts it to nothing ("writing"), and saves the workbook *)
(*   when the with block is left.                                          *)
(***************************************************************************)
Begin(json_data, concept_mapping) ==
    /\ pc = "idle"
    /\ Len(hist) + Len(killed) < MaxCalls
    /\ LET r == update_excel_with_json_data(store, json_data, concept_mapping, upcast)
       IN  \/ /\ raises_before_write(store, json_data, concept_mapping, upcast)
              /\ hist' = Append(hist, Call(json_data, concept_mapping, store,
                                           r.store, r.ret))
              /\ UNCHANGED <<store, pc, pending>>
           \/ /\ ~raises_before_write(store, json_data, concept_mapping, upcast)
              /\ store.state = "ok"
              /\ store' = CorruptStore
              /\ pc' = "writing"
              /\ pending' = Call(json_data, concept_mapping, store, r.store, r.ret)
              /\ UNCHANGED hist
           \/ /\ store.state = "missing"
              /\ store' = create_empty_workbook(DOMAIN concept_mapping)
              /\ pc' = "created"
              /\ pending' = Call(json_data, concept_mapping, store, r.store, r.ret)
              /\ UNCHANGED hist
    /\ UNCHANGED <<killed, upcast, ocr, batchvars, convvars, template>>

\* pd.ExcelWriter(output_excel_path, engine='openpyxl') in the bootstrap case.
OpenWriter ==
    /\ pc = "created"
    /\ store' = CorruptStore
    /\ pc' = "writing"
    /\ UNCHANGED <<hist, pending, killed, upcast, ocr, batchvars, convvars, template>>

\* The with block is left: the workbook is saved and the call returns.
Save ==
    /\ pc = "writing"
    /\ store' = pending.post
    /\ pc' = "idle"
    /\ hist' = Append(hist, pending)
    /\ UNCHANGED <<pending, killed, upcast, ocr, batchvars, convvars, template>>

\* The process is terminated inside the upsert: the file stays as it is.
Kill ==
    /\ pc # "idle"
    /\ pc' = "idle"
    /\ killed' = Append(killed, [pre |-> pending.pre, post |-> pending.post,
                                 at |-> pc, left |-> store])
    /\ UNCHANGED <<store, hist, pending, upcast, ocr, batchvars, convvars, template>>

NextCrash ==
    \/ \E j \in JsonData, m \in Vocabularies : Begin(j, m)
    \/ OpenWriter
    \/ Save
    \/ Kill

SpecCrash == InitUpcast /\ [][NextCrash]_vars

(***************************************************************************)
(* One call of an OCR entry point on inputs drawn from the samples.        *)
(***************************************************************************)
CallCombine(ocr_results, file_type, language, world) ==
    /\ ocr.fn = "none"
    /\ ocr' = [fn |-> "combine_ocr_results",
               ocr_results |-> ocr_results, file_type |-> file_type,
               language |-> language, world |-> world,
               out |-> combine_ocr_results(ocr_results, file_type, language, world)]
    /\ UNCHANGED <<store, hist, pc, pending, killed, upcast, batchvars, convvars, template>>

CallProcessFile(file_extension, given, world) ==
    /\ ocr.fn = "none"
    /\ ocr' = [fn |-> "process_file_with_combined_ocr",
               file_extension |-> file_extension, given |-> given, world |-> world,
               out |-> process_file_with_combined_ocr(file_extension, given, world)]
    /\ UNCHANGED <<store, hist, pc, pending, killed, upcast, batchvars, convvars, template>>

CallClaude(file_extension, world) ==
    /\ ocr.fn = "none"
    /\ ocr' = [fn |-> "extract_text_with_claude",
               file_extension |-> file_extension, world |-> world,
               out |-> extract_text_with_claude(file_extension, world)]
    /\ UNCHANGED <<store, hist, pc, pending, killed, upcast, batchvars, convvars, template>>

CallDocumentAI(file_extension, world) ==
    /\ ocr.fn = "none"
    /\ ocr' = [fn |-> "extract_text_with_documentai",
               file_extension |-> file_extension, world |-> world,
               out |-> extract_text_with_documentai(file_extension, world)]
    /\ UNCHANGED <<store, hist, pc, pending, killed, upcast, batchvars, convvars, template>>

NextOcr ==
    \/ \E r \in OcrResults, ft \in {"", "pdf", "docx"},
          lang \in {"", "hebrew", "english"}, w \in CombineWorlds :
          CallCombine(r, ft, lang, w)
    \/ \E e \in FileExtensions, r \in OcrResults, w \in Worlds :
          CallProcessFile(e, r, w)
    \/ \E e \in ProviderExtensions, w \in ProviderWorlds : CallClaude(e, w)
    \/ \E e \in ProviderExtensions, w \in ProviderWorlds : CallDocumentAI(e, w)

SpecOcr == InitUpcast /\ [][NextOcr]_vars

(***************************************************************************)
(* The batch: process_single_file and the loop of process_client_files.    *)
(*   A file is the stem of its name and its extension.  The aspect         *)
(*   extractor (Claude_extract_values) answers a field map or raises.      *)
(***************************************************************************)
File(stem, file_extension) == [stem |-> stem, ext |-> file_extension]

\* The key of the metadata block added to the extracted data (the processing
\* time it also holds is left out).
Metadata == "metadata"

\* The concept mapping of a batch is the dict excel_to_concept_mapping
\* returned: its (sheet, concepts) items in the order of the workbook's sheets.
SheetItem(sheet, concepts) == [sheet |-> sheet, concepts |-> concepts]

\* The mapping as a function of the sheet names, which is how
\* update_excel_with_json_data is modelled to take it.
dict_of(concept_mapping) ==
    [s \in {concept_mapping[i].sheet : i \in DOMAIN concept_mapping} |->
        concept_mapping[CHOOSE i \in DOMAIN concept_mapping :
                            concept_mapping[i].sheet = s].concepts]

RECURSIVE ValuesOfSheets(_)
\* The concept values of the sheets, sheet after sheet in the order of
\* concept_mapping.items().
ValuesOfSheets(concept_mapping) ==
    IF concept_mapping = <<>> THEN <<>>
    ELSE ConceptValues(concept_mapping[1].concepts)
             \o ValuesOfSheets(Tail(concept_mapping))

\* all_concept_values: every concept value of every sheet, once.
all_concept_values(concept_mapping) == Dedupe(ValuesOfSheets(concept_mapping))

NotProcessed(reason) ==
    [ret |-> None, reason |-> reason, ocr_calls |-> 0, ocr_text |-> <<>>,
     fusion_calls |-> 0, extract_calls |-> 0, extract_args |-> <<>>,
     artifact |-> <<>>]

\* process_single_file(file_path, concept_mapping, output_dir): what it returns
\* (None, or the id, data and file type), the calls it made and the JSON file
\* it wrote (<<>> for none, else the one content).
process_single_file(file, concept_mapping, world) ==
    LET file_id == extract_file_id(file.stem)  \* no sample extension holds a digit
        file_extension == ext_lower(file.ext)
        document_type == file_type_of(file.ext)
    IN  IF file_extension \notin {".png", ".pdf", ".docx"}
        THEN NotProcessed("unsupported")
        ELSE IF file_id = None THEN NotProcessed("no id")
        ELSE LET o == process_file_with_combined_ocr(file.ext, <<>>, world)
                 args == [text |-> o.text,
                          values |-> all_concept_values(concept_mapping),
                          document_type |-> document_type]
                 extracted_data ==
                     [k \in DOMAIN world.extract.data \cup {Metadata} |->
                         IF k = Metadata
                         THEN [file_name |-> file, file_type |-> document_type]
                         ELSE world.extract.data[k]]
                 made == [ocr_calls |-> 1, ocr_text |-> o.text,
                          fusion_calls |-> o.fusion_calls,
                          extract_calls |-> 1, extract_args |-> <<args>>]
             IN  IF world.extract.raises
                 THEN made @@ [ret |-> None, reason |-> "exception",
                               artifact |-> <<>>]
                 ELSE made @@ [ret |-> <<[id |-> file_id, data |-> extracted_data,
                                          file_type |-> document_type]>>,
                               reason |-> "",
                               artifact |-> <<extracted_data>>]

\* Sample files of the directory and what the collaborators do for one file.
BatchFiles ==
    {File(s, e) : s \in {<<Other, 7>>, <<Other, 0, 7>>, <<Other>>},
                  e \in {".pdf", ".docx", ".doc", ".txt"}}

ExtractOutcomes ==
    { [raises |-> FALSE, data |-> [c \in {"Hebrew", "English"} |-> "yes"]],
      [raises |-> TRUE, data |-> NoArtifacts] }

BatchWorlds ==
    [client_raises : {FALSE},
     fusion : {f \in FusionOutcomes : f.raises \/ f.text # <<>>},
     providers : {[imports |-> TRUE, raises |-> FALSE,
                   results |-> <<Item("Claude", Str(DocText)),
                                 Item("DocumentAI", Str(DocText))>>],
                  [imports |-> TRUE, raises |-> TRUE, results |-> <<>>]},
     extract : ExtractOutcomes]

BatchVocabularies ==
    {NoVocabulary,
     <<SheetItem("Languages", <<Concept(1, "Hebrew"), Concept(2, "English")>>)>>}

\* The scans of a directory of at most n files: sequences of different files.
Scans(n) ==
    {s \in UNION {[1..k -> BatchFiles] : k \in 0..n} :
        \A i, j \in DOMAIN s : i # j => s[i] # s[j]}

InitBatch ==
    /\ store = MissingStore
    /\ hist = <<>>
    /\ pc = "idle"
    /\ pending = Call(NoSheets, NoSheets, MissingStore, MissingStore, FALSE)
    /\ killed = <<>>
    /\ upcast \in BOOLEAN
    /\ ocr = NoOcrCall
    /\ files \in Scans(MaxFiles)
    /\ vocab \in BatchVocabularies
    /\ docs = <<>>
    /\ artifacts = NoArtifacts
    /\ successful_files = 0
    /\ conv = NoConvCall
    /\ folder = NoFolder
    /\ template = NoTemplate

\* ProcessFile counting every file process_single_file returned data for,
\* whatever the upsert returned.
ProcessFile_counts_returned_data(world) ==
    /\ Len(docs) < Len(files)
    /\ LET file == files[Len(docs) + 1]
           r == process_single_file(file, vocab, world)
           u == IF r.ret = None THEN [store |-> store, ret |-> FALSE]
                ELSE update_excel_with_json_data(store, r.ret[1], dict_of(vocab), upcast)
       IN  /\ artifacts' = IF r.artifact = <<>> THEN artifacts
                           ELSE [n \in DOMAIN artifacts \cup {file.stem} |->
                                    IF n = file.stem THEN r.artifact[1]
                                    ELSE artifacts[n]]
           /\ store' = u.store
           /\ successful_files' = IF r.ret # None THEN successful_files + 1
                                  ELSE successful_files
           /\ docs' = Append(docs, r @@ [file |-> file,
                                         upsert_calls |-> IF r.ret = None THEN 0 ELSE 1,
                                         upsert_ret |-> u.ret,
                                         pre |-> store, post |-> u.store])
    /\ UNCHANGED <<hist, pc, pending, killed, upcast, ocr, files, vocab, convvars, template>>

\* One turn of the loop of process_client_files: process_single_file on the
\* next file and, when it returned data, the upsert into the store.
ProcessFile(world) ==
    /\ Len(docs) < Len(files)
    /\ LET file == files[Len(docs) + 1]
           r == process_single_file(file, vocab, world)
           u == IF r.ret = None THEN [store |-> store, ret |-> FALSE]
                ELSE update_excel_with_json_data(store, r.ret[1], dict_of(vocab), upcast)
       IN  /\ artifacts' = IF r.artifact = <<>> THEN artifacts
                           ELSE [n \in DOMAIN artifacts \cup {file.stem} |->
                                    IF n = file.stem THEN r.artifact[1]
                                    ELSE artifacts[n]]
           /\ store' = u.store
           /\ successful_files' = IF u.ret THEN successful_files + 1
                                  ELSE successful_files
           /\ docs' = Append(docs, r @@ [file |-> file,
                                         upsert_calls |-> IF r.ret = None THEN 0 ELSE 1,
                                         upsert_ret |-> u.ret,
                                         pre |-> store, post |-> u.store])
    /\ UNCHANGED <<hist, pc, pending, killed, upcast, ocr, files, vocab, convvars, template>>

NextBatch == \E w \in BatchWorlds : ProcessFile(w)

SpecBatch == InitBatch /\ [][NextBatch]_vars

(***************************************************************************)
(* One call of convert_file_to_png on a file and an installation.          *)
(***************************************************************************)
CallConvert(file_extension, world) ==
    /\ conv.fn = "none"
    /\ conv' = [fn |-> "convert_file_to_png", file_extension |-> file_extension,
                world |-> world, out |-> convert_file_to_png(file_extension, world)]
    /\ UNCHANGED <<store, hist, pc, pending, killed, upcast, ocr, batchvars, folder, template>>

CallDocToDocx(world) ==
    /\ conv.fn = "none"
    /\ conv' = [fn |-> "convert_doc_to_docx", file_extension |-> ".doc",
                world |-> world, out |-> convert_doc_to_docx(world)]
    /\ UNCHANGED <<store, hist, pc, pending, killed, upcast, ocr, batchvars, folder, template>>

NextConvert ==
    /\ conv.fn = "none"
    /\ \/ \E w \in WordOutcomes : CallDocToDocx(w)
       \/ \E e \in ConvertExtensions, w \in ConvertWorlds : CallConvert(e, w)

SpecConvert == InitUpcast /\ [][NextConvert]_vars

(***************************************************************************)
(* process_client_files_folder of debug_OCR_THROW_PNG.py: the loop over    *)
(* the files of the folder, one turn per step.                             *)
(*   folder.inputs are the files of the scan still on disk (by position),  *)
(*   folder.temps the temporary files on disk (turn, number in the turn).  *)
(***************************************************************************)
\* str(file_path): a str, where file_path is a Path object.
str_of_path(path) == <<"str">> \o path

StartFolder(fs) ==
    [files |-> fs, done |-> <<>>, inputs |-> DOMAIN fs, temps |-> {},
     aborted |-> FALSE]

\* Installations of the folder runs: every tool works, or none does.
ToolsWork ==
    [pdf2image |-> "ok", pymupdf |-> "ok", magick |-> "ok", word |-> "no import",
     word_docx |-> "fails", text |-> "text", textpdf |-> "ok", textimage |-> "ok"]

ToolsFail ==
    [pdf2image |-> "raises", pymupdf |-> "raises", magick |-> "raises",
     word |-> "no import", word_docx |-> "fails", text |-> "text",
     textpdf |-> "no import", textimage |-> "raises"]

\* What happens in one turn: the installation, whether extract_text_with_claude
\* returns a text or its error message, whether print(text) raises, whether
\* os.remove fails.
FolderWorlds ==
    [convert : {ToolsWork, ToolsFail}, ocr : {"text", "error"},
     print_raises : BOOLEAN, remove_fails : BOOLEAN]

FolderExtensions == {".pdf", ".docx", ".png", ".txt"}

InitFolder ==
    /\ store = MissingStore
    /\ hist = <<>>
    /\ pc = "idle"
    /\ pending = Call(NoSheets, NoSheets, MissingStore, MissingStore, FALSE)
    /\ killed = <<>>
    /\ upcast = TRUE
    /\ ocr = NoOcrCall
    /\ files = <<>>
    /\ vocab = NoVocabulary
    /\ docs = <<>>
    /\ artifacts = NoArtifacts
    /\ successful_files = 0
    /\ conv = NoConvCall
    /\ folder \in {StartFolder(fs) :
                      fs \in UNION {[1..k -> FolderExtensions] : k \in 0..MaxFolderFiles}}
    /\ template = NoTemplate

\* One turn of the loop on file i, whose conversion gave c:
\* extract_text_with_claude on the image, print, and the removal of the image
\* when png_path != str(file_path) and the path exists. An exception of print
\* leaves the function.
folder_turn(fd, i, c, world) ==
    LET png_path == c.ret
        reached == png_path # None /\ ~world.print_raises
        exists == IF png_path = InputPath THEN i \in fd.inputs
                  ELSE png_path[2] \in c.st.left
        removes == /\ reached
                   /\ png_path # str_of_path(InputPath)
                   /\ exists
                   /\ ~world.remove_fails
        left == IF removes /\ png_path # InputPath
                THEN c.st.left \ {png_path[2]} ELSE c.st.left
    IN  [fd EXCEPT
           !.done = Append(@, [file |-> fd.files[i], png_path |-> png_path,
                               ocr_calls |-> IF png_path # None THEN 1 ELSE 0,
                               text |-> IF png_path # None THEN world.ocr ELSE "",
                               raised |-> png_path # None /\ world.print_raises]),
           !.inputs = IF removes /\ png_path = InputPath THEN @ \ {i} ELSE @,
           !.temps = @ \cup {<<i, k>> : k \in left},
           !.aborted = png_path # None /\ world.print_raises]

\* The next turn of the loop, convert_file_to_png on the file first.
FolderFile(world) ==
    /\ ~folder.aborted
    /\ Len(folder.done) < Len(folder.files)
    /\ folder' = folder_turn(folder, Len(folder.done) + 1,
                             convert_file_to_png(folder.files[Len(folder.done) + 1],
                                                 world.convert),
                             world)
    /\ UNCHANGED <<store, hist, pc, pending, killed, upcast, ocr, batchvars, conv, template>>

NextFolder == \E w \in FolderWorlds : FolderFile(w)

SpecFolder == InitFolder /\ [][NextFolder]_vars

(***************************************************************************)
(* One read of a template workbook by excel_to_concept_mapping.            *)
(***************************************************************************)
InitTemplate ==
    /\ store = MissingStore
    /\ hist = <<>>
    /\ pc = "idle"
    /\ pending = Call(NoSheets, NoSheets, MissingStore, MissingStore, FALSE)
    /\ killed = <<>>
    /\ upcast = TRUE
    /\ ocr = NoOcrCall
    /\ files = <<>>
    /\ vocab = NoVocabulary
    /\ docs = <<>>
    /\ artifacts = NoArtifacts
    /\ successful_files = 0
    /\ conv = NoConvCall
    /\ folder = NoFolder
    /\ template \in {[NoTemplate EXCEPT !.workbook = w] : w \in Workbooks}

ReadTemplate ==
    /\ ~template.read
    /\ template' = [template EXCEPT
                      !.read = TRUE,
                      !.mapping = excel_to_concept_mapping(template.workbook)]
    /\ UNCHANGED <<store, hist, pc, pending, killed, upcast, ocr, batchvars, convvars>>

NextTemplate == ReadTemplate

SpecTemplate == InitTemplate /\ [][NextTemplate]_vars

(***************************************************************************)
(* Properties of the store.  A call is a record of hist: the arguments of  *)
(* one update_excel_with_json_data call, the store before and after it and *)
(* what it returned.                                                       *)
(***************************************************************************)
Calls == Range(hist)

\* The ID of row i of a sheet as the program reads it: read back and cast to str.
RowId(sheet, i) == astype_str(read_excel(sheet).rows[i][IDCol])

\* The rows of a sheet whose ID reads as file_id does.
RowsOf(sheet, file_id) ==
    {i \in DOMAIN sheet.rows : RowId(sheet, i) = StrOf(IntOf(file_id))}

\* The IDs upserted into sheet s so far by calls that returned True.
Upserted(s) ==
    {c.json_data.id : c \in {d \in Calls : d.ret /\ s \in DOMAIN d.concept_mapping}}

\* The value a call supplies for column k of sheet s.
Supplied(c, s, k) ==
    IF k = IDCol THEN c.json_data.id
    ELSE IF k = FTCol THEN c.json_data.file_type
    ELSE IF k \in DOMAIN c.json_data.data THEN c.json_data.data[k]
    ELSE NotFound

\* The columns a call supplies for sheet s.
SuppliedCols(c, s) ==
    {IDCol, FTCol} \cup {c.concept_mapping[s][i].value : i \in DOMAIN c.concept_mapping[s]}

\* The content of a cell of column k, whatever its representation.
CellText(k, cell) == IF k = IDCol THEN cell.ds ELSE cell

\* The call found a row of its ID in sheet s of the store it started from.
Found(c, s) ==
    /\ c.pre.state = "ok"
    /\ s \in DOMAIN c.pre.sheets
    /\ IDCol \in Range(c.pre.sheets[s].cols)
    /\ \E i \in DOMAIN c.pre.sheets[s].rows : RowId(c.pre.sheets[s], i) = c.json_data.id

\* The first row of sheet s, before the call, whose ID reads as the call's ID.
FoundIndex(c, s) ==
    CHOOSE i \in DOMAIN c.pre.sheets[s].rows :
        /\ RowId(c.pre.sheets[s], i) = c.json_data.id
        /\ \A j \in 1..(i - 1) : RowId(c.pre.sheets[s], j) # c.json_data.id

\* The call appended a row to sheet s.
Appended(c, s) ==
    /\ c.ret
    /\ s \in DOMAIN c.concept_mapping
    /\ Len(c.post.sheets[s].rows) =
          (IF s \in DOMAIN c.pre.sheets THEN Len(c.pre.sheets[s].rows) ELSE 0) + 1

\* C1: after any sequence of upserts from a missing store, every sheet holds at
\* most one row per ID and exactly one row for every ID upserted into it by a
\* call that returned True: a sheet never holds more rows than IDs were
\* upserted into it, and every upserted ID has a row.
C1_OneRowPerId ==
    \A s \in DOMAIN store.sheets :
        /\ Len(store.sheets[s].rows) <= Cardinality(Upserted(s))
        /\ \A k \in Upserted(s) : RowsOf(store.sheets[s], k) # {}

\* C2: upserting the same ID twice in a row with the same vocabulary leaves every
\* sheet with the number of rows it had after the first call, and the row of
\* that ID then holds the second call's value in every field it supplied.
C2_SecondUpsertOverwrites ==
    \A n \in 1..(Len(hist) - 1) :
        LET a == hist[n]
            b == hist[n + 1]
        IN  (/\ a.ret
             /\ a.json_data.id = b.json_data.id
             /\ a.concept_mapping = b.concept_mapping)
            => /\ b.ret
               /\ \A s \in DOMAIN b.concept_mapping :
                    /\ Len(b.post.sheets[s].rows) = Len(a.post.sheets[s].rows)
                    /\ \E i \in RowsOf(b.post.sheets[s], b.json_data.id) :
                          \A k \in SuppliedCols(b, s) :
                             /\ k \in DOMAIN b.post.sheets[s].rows[i]
                             /\ CellText(k, b.post.sheets[s].rows[i][k]) = Supplied(b, s, k)

\* C3: an upsert of an ID that an earlier upsert wrote into the same sheet
\* matches that row and appends no second row, for every ID extract_file_id can
\* return, leading zeros included.
C3_UpsertFindsEarlierRow ==
    \A m, n \in DOMAIN hist :
        (/\ m < n
         /\ hist[m].ret
         /\ hist[n].ret
         /\ hist[m].json_data.id = hist[n].json_data.id)
        => \A s \in DOMAIN hist[m].concept_mapping \cap DOMAIN hist[n].concept_mapping :
              Len(hist[n].post.sheets[s].rows) = Len(hist[n].pre.sheets[s].rows)

\* C4: when an upsert finds a row of the incoming ID, every column of that row
\* that is not among the incoming row's fields keeps the value it had.
C4_UpdateKeepsOtherColumns ==
    \A c \in Calls :
        \A s \in DOMAIN c.concept_mapping :
            Found(c, s) =>
                \A k \in Range(c.pre.sheets[s].cols) \ SuppliedCols(c, s) :
                    /\ k \in DOMAIN c.post.sheets[s].rows[FoundIndex(c, s)]
                    /\ c.post.sheets[s].rows[FoundIndex(c, s)][k]
                          = c.pre.sheets[s].rows[FoundIndex(c, s)][k]

\* C5: when the vocabulary of a sheet has gained a concept, an upsert adds the
\* concept's column to the sheet and stores the supplied value in the row of the
\* incoming ID, whether the ID is new to the sheet or has a row already.
C5_NewConceptColumnStored ==
    \A c \in Calls :
        c.pre.state # "corrupt" =>
            \A s \in DOMAIN c.concept_mapping :
                /\ s \in DOMAIN c.post.sheets
                /\ \A k \in SuppliedCols(c, s) :
                      /\ k \in Range(c.post.sheets[s].cols)
                      /\ \E i \in RowsOf(c.post.sheets[s], c.json_data.id) :
                            CellText(k, c.post.sheets[s].rows[i][k]) = Supplied(c, s, k)

\* C6: across any upsert on an existing store the sheets, and the columns of
\* each sheet, after the call include those before it.
C6_SheetsAndColumnsOnlyGrow ==
    \A c \in Calls :
        c.pre.state = "ok" =>
            /\ c.post.state = "ok"
            /\ DOMAIN c.pre.sheets \subseteq DOMAIN c.post.sheets
            /\ \A s \in DOMAIN c.pre.sheets :
                  Range(c.pre.sheets[s].cols) \subseteq Range(c.post.sheets[s].cols)

\* One call wrote a row narrower than the sheet it wrote to, and one call's
\* vocabulary did not name a sheet of the store; both returned True.
C6_Witness ==
    /\ \E c \in Calls :
          /\ c.ret /\ c.pre.state = "ok"
          /\ \E s \in DOMAIN c.concept_mapping \cap DOMAIN c.pre.sheets :
                Range(c.pre.sheets[s].cols) \ SuppliedCols(c, s) # {}
    /\ \E c \in Calls :
          /\ c.ret /\ c.pre.state = "ok"
          /\ DOMAIN c.pre.sheets \ DOMAIN c.concept_mapping # {}

\* C7: a row appended by an upsert holds the ID, the File Type and, in every
\* other column of the sheet, the extracted value or "Not found": no column of
\* the new row is left empty.
C7_AppendedRowIsFilled ==
    \A c \in Calls :
        \A s \in DOMAIN c.concept_mapping :
            Appended(c, s) =>
                LET sheet == c.post.sheets[s]
                    new   == sheet.rows[Len(sheet.rows)]
                IN  /\ new[IDCol] = TextCell(c.json_data.id)
                    /\ new[FTCol] = c.json_data.file_type
                    /\ \A k \in Range(sheet.cols) \ {IDCol, FTCol} :
                          new[k] = Supplied(c, s, k)

\* C8: if the process is terminated during an upsert, the store on disk is the
\* one before the upsert or the one after it.
C8_KilledUpsertIsAllOrNothing ==
    \A k \in Range(killed) : k.left = k.pre \/ k.left = k.post

(***************************************************************************)
(* Properties of the reconciliation.                                       *)
(***************************************************************************)
\* C10: when the failure filter discards every entry of ocr_results,
\* combine_ocr_results makes no fusion call and the canonical text is the empty
\* string: no document text is produced.
C10_NoUsableInputNoFusion ==
    (/\ ocr.fn = "combine_ocr_results"
     /\ \A i \in DOMAIN ocr.ocr_results : ~usable(ocr.ocr_results[i].value))
    => /\ ocr.out.fusion_calls = 0
       /\ ocr.out.text = <<>>

\* A text a provider or extraction function returns on a failure path: it
\* begins "Error ...", "Failed ...", "Unsupported file type ..." or
\* "Could not extract text ...".
ProviderFailureText(text) ==
    \E w \in {"Error", "Failed", "Unsupported", "Could"} : startswith(text, w)

\* A successful provider result: a text that is no failure message.
Successful(value) ==
    value.str /\ value.text # <<>> /\ ~ProviderFailureText(value.text)

\* C11: when at least one entry of ocr_results is a successful provider
\* result, the text combine_ocr_results returns is not empty and is no failure
\* message, whatever the fusion call does (raising included).
C11_CombinedTextIsDocumentText ==
    (/\ ocr.fn = "combine_ocr_results"
     /\ \E i \in DOMAIN ocr.ocr_results : Successful(ocr.ocr_results[i].value))
    => /\ ocr.out.text # <<>>
       /\ ~ProviderFailureText(ocr.out.text)

\* C12: no failure text of a provider or extraction function is among the
\* extractions combine_ocr_results hands to the fusion call.
C12_NoFailureTextInPrompt ==
    (ocr.fn = "combine_ocr_results" /\ ocr.out.prompt.sent)
    => \A i \in DOMAIN ocr.out.prompt.extractions :
          ~ProviderFailureText(ocr.out.prompt.extractions[i].value.text)

\* Row i of a sheet reads the same, cell for cell, after the call as before
\* it, on the columns the sheet had.
RowUnchanged(pre, post, i) ==
    /\ i \in DOMAIN post.rows
    /\ \A k \in Range(pre.cols) :
          /\ k \in DOMAIN post.rows[i]
          /\ CellText(k, post.rows[i][k]) = CellText(k, pre.rows[i][k])

\* C28: an upsert for ID k leaves every row whose ID is not k unchanged, cell
\* for cell, in every sheet, and leaves every sheet of the store that the
\* vocabulary of the call does not name entirely unchanged.
C28_OtherRowsAndSheetsUnchanged ==
    \A c \in Calls :
        (c.ret /\ c.pre.state = "ok") =>
            \A s \in DOMAIN c.pre.sheets :
                /\ s \in DOMAIN c.post.sheets
                /\ s \notin DOMAIN c.concept_mapping =>
                      /\ c.post.sheets[s].cols = c.pre.sheets[s].cols
                      /\ Len(c.post.sheets[s].rows) = Len(c.pre.sheets[s].rows)
                /\ \A i \in DOMAIN c.pre.sheets[s].rows :
                      (\/ s \notin DOMAIN c.concept_mapping
                       \/ CellText(IDCol, c.pre.sheets[s].rows[i][IDCol])
                             # c.json_data.id)
                      => RowUnchanged(c.pre.sheets[s], c.post.sheets[s], i)

(***************************************************************************)
(* Properties of the provider functions and of the reconciliation.         *)
(***************************************************************************)
ProviderFunctions == {"extract_text_with_claude", "extract_text_with_documentai"}

ReconciliationFunctions == {"combine_ocr_results", "process_file_with_combined_ocr"}

\* The mapping a reconciliation call worked on.
MappingOf(call) ==
    IF call.fn = "combine_ocr_results" THEN call.ocr_results ELSE call.out.ocr_results

\* C22: a provider function or reconciliation entry point never raises to its
\* caller: when a step inside it raises, it returns a text describing the
\* failure; and a failed entry of the result mapping does not keep a successful
\* entry out of the reconciliation request.
C22_FailuresAreReturnedTexts ==
    /\ ocr.fn \in ProviderFunctions =>
          /\ ~ocr.out.raised
          /\ ocr.world \in {"client raises", "open raises", "api raises"}
                => ProviderFailureText(ocr.out.text)
    /\ ocr.fn \in ReconciliationFunctions =>
          /\ (ocr.world.client_raises \/ ocr.world.fusion.raises)
                => (ocr.out.text # <<>> /\ ProviderFailureText(ocr.out.text))
          /\ ocr.out.prompt.sent =>
                \A i \in DOMAIN MappingOf(ocr) :
                    Successful(MappingOf(ocr)[i].value) =>
                        \E j \in DOMAIN ocr.out.prompt.extractions :
                            ocr.out.prompt.extractions[j] = MappingOf(ocr)[i]
    /\ (/\ ocr.fn = "process_file_with_combined_ocr"
        /\ ocr.given = <<>>
        /\ (~ocr.world.providers.imports \/ ocr.world.providers.raises))
          => (ocr.out.text # <<>> /\ ProviderFailureText(ocr.out.text))

\* The request of a provider raised on an image, and the provider returned its
\* failure text.
C22_Witness ==
    /\ ocr.fn = "extract_text_with_claude"
    /\ ocr.world = "api raises"
    /\ ocr.file_extension = ".png"
    /\ ocr.out = Returns(ErrorClaude)

\* "hebrew" occurs in the text, in any case.
ContainsHebrew(text) == \E i \in DOMAIN text : text[i] \in {"hebrew", "Hebrew", "HEBREW"}

\* The mapping came from the built-in providers of a .docx file.
BuiltInDocx(call) == call.given = <<>> /\ call.file_extension = ".docx"

\* C25: the language process_file_with_combined_ocr hands to
\* combine_ocr_results is "hebrew" or "english": for a .docx file read by the
\* built-in providers it is "hebrew" exactly when the mapping has a "Note" entry
\* that contains "hebrew"; in every other case exactly when some string value
\* of the mapping contains "hebrew", wherever in the mapping it stands.
C25_LanguageIsHebrewOrEnglish ==
    (ocr.fn = "process_file_with_combined_ocr" /\ ocr.out.combined) =>
        LET m == ocr.out.ocr_results
        IN  /\ ocr.out.language \in {"hebrew", "english"}
            /\ ocr.out.prompt.sent => ocr.out.prompt.language = ocr.out.language
            /\ BuiltInDocx(ocr) =>
                  (ocr.out.language = "hebrew" <=>
                      \E i \in DOMAIN m : /\ m[i].method = "Note"
                                          /\ m[i].value.str
                                          /\ ContainsHebrew(m[i].value.text))
            /\ ~BuiltInDocx(ocr) =>
                  (ocr.out.language = "hebrew" <=>
                      \E i \in DOMAIN m : /\ m[i].value.str
                                          /\ ContainsHebrew(m[i].value.text))

\* A mapping passed by the caller whose last entry alone contains "hebrew" was
\* combined as Hebrew.
C25_Witness ==
    /\ ocr.fn = "process_file_with_combined_ocr"
    /\ ocr.out.combined
    /\ ocr.given # <<>>
    /\ ocr.out.language = "hebrew"
    /\ Len(ocr.given) = 2
    /\ ~ContainsHebrew(ocr.given[1].value.text)
    /\ ContainsHebrew(ocr.given[2].value.text)

\* Two mappings with the same methods that differ at most in the text of
\* entries the failure filter discards.
DifferOnlyInDiscarded(m1, m2) ==
    /\ Len(m1) = Len(m2)
    /\ \A i \in DOMAIN m1 :
          /\ m1[i].method = m2[i].method
          /\ \/ m1[i].value = m2[i].value
             \/ /\ m1[i].value.str /\ m2[i].value.str
                /\ ~usable(m1[i].value) /\ ~usable(m2[i].value)

\* C27: an entry the failure filter discards has no influence on the
\* reconciliation request: for a mapping that differs from the one of the
\* call only in the text of discarded entries, process_file_with_combined_ocr
\* sends the same prompt, with the same language.
C27_DiscardedEntriesDoNotCount ==
    (/\ ocr.fn = "process_file_with_combined_ocr"
     /\ ocr.given # <<>>
     /\ ocr.out.prompt.sent)
    => \A m \in OcrResults :
          (m # <<>> /\ DifferOnlyInDiscarded(ocr.given, m)) =>
              LET other == process_file_with_combined_ocr(ocr.file_extension, m,
                                                          ocr.world)
              IN  /\ other.language = ocr.out.language
                  /\ other.prompt = ocr.out.prompt

(***************************************************************************)
(* Properties of the template.                                             *)
(***************************************************************************)
\* The rows of a sheet that are not blank throughout.
NonBlankRows(rows) ==
    SelectSeq(rows, LAMBDA r : \E k \in DOMAIN r : r[k].kind # "blank")

\* C24: excel_to_concept_mapping leaves out a sheet with fewer than two
\* non-blank rows, and for every other sheet it returns one pair per data row,
\* in row order, the ID and the stripped value of that row; also when a data
\* row has an ID and a blank value cell.
C24_OnePairPerDataRow ==
    (template.read /\ template.workbook.readable) =>
        \A s \in DOMAIN template.workbook.sheets :
            LET rows == NonBlankRows(template.workbook.sheets[s])
            IN  IF Len(rows) < 2 THEN s \notin DOMAIN template.mapping
                ELSE /\ s \in DOMAIN template.mapping
                     /\ Len(template.mapping[s]) = Len(rows) - 1
                     /\ \A i \in 1..(Len(rows) - 1) :
                           Len(rows[i + 1]) >= 2 =>
                              /\ template.mapping[s][i].id = rows[i + 1][1]
                              /\ rows[i + 1][2].kind = "str" =>
                                    template.mapping[s][i].value
                                        \in {"Hebrew", "English"}

(***************************************************************************)
(* Properties of the conversion.  The call is the record conv.             *)
(***************************************************************************)
Converted == conv.fn = "convert_file_to_png"

ConvertedPdf == Converted /\ ext_lower(conv.file_extension) = ".pdf"

\* The temporary files a finished call may leave: the image it returned.
ReturnedTemps(out) ==
    IF out.ret # None /\ out.ret # InputPath THEN {out.ret[2]} ELSE {}

\* C13: when convert_file_to_png returns, every temporary file created during
\* the call, other than the image it returns, has been deleted.
C13_NoTempLeftBehind ==
    Converted => conv.out.st.left \subseteq ReturnedTemps(conv.out)

\* C16: convert_file_to_png makes a bounded number of strategy attempts (3 for
\* a PDF, 9 for a DOCX, 19 for a DOC, none for an image) and ends by returning
\* None, the input image or a temporary PNG that is on disk; it never raises.
C16_ConversionEndsWithImageOrNone ==
    Converted =>
        /\ \/ conv.out.ret = None
           \/ conv.out.ret = InputPath
           \/ \E i \in conv.out.st.left :
                 conv.out.ret = TempPath(i) /\ conv.out.st.created[i] = "png"
        /\ Len(conv.out.st.attempts) <=
               (CASE ext_lower(conv.file_extension) = ".pdf" -> 3
                  [] ext_lower(conv.file_extension) = ".docx" -> 9
                  [] ext_lower(conv.file_extension) = ".doc" -> 19
                  [] OTHER -> 0)

\* A DOC goes through every method, the DOCX made from it too, and nothing is
\* raised: the call ends with None.
C16_Witness ==
    /\ Converted
    /\ conv.file_extension = ".doc"
    /\ conv.world.word = "saved" /\ conv.world.word_docx = "saved"
    /\ conv.world.magick = "raises"
    /\ Len(conv.out.st.attempts) = 19
    /\ conv.out.ret = None

\* C17: for a PDF, convert_pdf_to_png tries pdf2image, then PyMuPDF, then
\* ImageMagick; a strategy is tried exactly when every earlier one failed, the
\* image of the first success is returned, and a failure of pdf2image with a
\* working PyMuPDF still yields an image.
C17_PdfStrategiesInOrder ==
    ConvertedPdf =>
        LET w == conv.world
            a == conv.out.st.attempts
            n == IF w.pdf2image = "ok" THEN 1 ELSE IF w.pymupdf = "ok" THEN 2 ELSE 3
        IN  /\ a = SubSeq(<<"pdf2image", "PyMuPDF", "ImageMagick">>, 1, n)
            /\ (w.pdf2image = "ok" \/ w.pymupdf = "ok" \/ w.magick = "ok")
                   <=> conv.out.ret # None
            /\ conv.out.ret # None => conv.out.ret = TempPath(Len(conv.out.st.created))

\* pdf2image fails, PyMuPDF works: the image PyMuPDF made is returned and
\* ImageMagick is not tried.
C17_Witness ==
    /\ ConvertedPdf
    /\ conv.world.pdf2image = "raises"
    /\ conv.world.pymupdf = "ok"
    /\ conv.out.st.attempts = <<"pdf2image", "PyMuPDF">>
    /\ conv.out.ret = TempPath(1)

\* C26: when the plain-text extraction of a .docx or .doc file fails and
\* returns its failure message, and no other strategy gave an image,
\* convert_docx_to_png and convert_doc_to_png return None: the image returned
\* is never one drawn from the failure message.
C26_FailureMessageNotRendered ==
    (Converted /\ conv.file_extension \in {".docx", ".doc"}) =>
        /\ conv.out.st.rendered # FailureMessage
        /\ (/\ conv.world.text = FailureMessage
            /\ conv.out.st.attempts # <<>>
            /\ \E i \in DOMAIN conv.out.st.attempts : conv.out.st.attempts[i] = "text")
              => conv.out.ret = None

\* C29: every Word instance started by a conversion function has been quit
\* when the function returns, also when opening the document or saving the
\* converted file raised.
C29_WordAlwaysQuit ==
    conv.fn # "none" => conv.out.st.word_quit = conv.out.st.word_started

\* C14: in process_client_files_folder the temporary image made for a file
\* is no longer on disk once the turn of that file has ended, however it ended,
\* so it is never there when the next file is processed.
C14_TempImageGoneAfterTurn ==
    \A i \in DOMAIN folder.done :
        LET png_path == folder.done[i].png_path
        IN  (png_path # None /\ png_path # InputPath)
                => <<i, png_path[2]>> \notin folder.temps

\* C15: every file process_client_files_folder has handled is still on disk.
C15_InputFilesKept ==
    \A i \in DOMAIN folder.done : i \in folder.inputs

(***************************************************************************)
(* Properties of the batch.                                                *)
(***************************************************************************)
\* A message of a failure path of process_file_with_combined_ocr.
FailureSentinel(text) == startswith(text, "Error") \/ startswith(text, "Unsupported")

\* C9: when the text process_file_with_combined_ocr returned for a document is
\* a failure sentinel, process_single_file does not hand it to
\* extract_aspects_with_claude, writes no JSON artifact and no store row is
\* upserted for the document.
C9_SentinelNeverExtracted ==
    \A i \in DOMAIN docs :
        (docs[i].ocr_calls = 1 /\ FailureSentinel(docs[i].ocr_text))
        => /\ docs[i].extract_calls = 0
           /\ docs[i].artifact = <<>>
           /\ docs[i].upsert_calls = 0

\* The extensions the specification has the batch process: images, PDF, DOCX
\* and DOC.
SpecSupported(file_extension) ==
    ext_lower(file_extension) \in ImageExtensions \cup {".pdf", ".docx", ".doc"}

\* C18: the batch processes every file whose extension is an image type, PDF,
\* .docx or .doc and whose name yields an ID, and it skips a file as
\* unsupported, without OCR or aspect extraction, exactly when its extension is
\* none of these.
C18_SupportedFormatsProcessed ==
    \A i \in DOMAIN docs :
        /\ extract_file_id(docs[i].file.stem) # None
               => (docs[i].ocr_calls = 1 <=> SpecSupported(docs[i].file.ext))
        /\ ~SpecSupported(docs[i].file.ext)
               => docs[i].ocr_calls = 0 /\ docs[i].extract_calls = 0

\* The leftmost maximal run of digits of a name, None when it has no digit.
LeftmostDigitRun(n) ==
    IF \A k \in DOMAIN n : ~IsDigit(n[k]) THEN None
    ELSE LET i == CHOOSE k \in DOMAIN n :
                      IsDigit(n[k]) /\ \A l \in 1..(k - 1) : ~IsDigit(n[l])
             j == CHOOSE k \in i..Len(n) :
                      /\ \A l \in i..k : IsDigit(n[l])
                      /\ k = Len(n) \/ ~IsDigit(n[k + 1])
         IN  SubSeq(n, i, j)

\* C19: extract_file_id returns the leftmost maximal run of digits of the
\* name, None when the name has no digit; for a file without an ID
\* process_single_file returns None, calls neither OCR nor aspect extraction,
\* writes no JSON artifact, and the store gets no row.
C19_NoIdNoProcessing ==
    /\ \A n \in FileStems : extract_file_id(n) = LeftmostDigitRun(n)
    /\ \A i \in DOMAIN docs :
          /\ extract_file_id(docs[i].file.stem) = LeftmostDigitRun(docs[i].file.stem)
          /\ extract_file_id(docs[i].file.stem) = None
                => /\ docs[i].ret = None
                   /\ docs[i].ocr_calls = 0
                   /\ docs[i].extract_calls = 0
                   /\ docs[i].artifact = <<>>
                   /\ docs[i].upsert_calls = 0
                   /\ docs[i].post = docs[i].pre

\* A PDF without a digit in its name was skipped after a file with the ID "07"
\* was processed.
C19_Witness ==
    /\ Len(docs) = 2
    /\ docs[1].file = File(<<Other, 0, 7>>, ".pdf")
    /\ docs[1].ret # None /\ docs[1].ret[1].id = <<0, 7>>
    /\ docs[2].file = File(<<Other>>, ".pdf")
    /\ docs[2].reason = "no id"

\* C20: process_client_files hands every file of the scan to
\* process_single_file once, in scan order, whatever happened to the files
\* before; its count is the number of files that gave data and whose upsert
\* returned True, and is at most the number of files.
C20_EveryFileHandledOnce ==
    /\ Len(docs) <= Len(files)
    /\ \A i \in DOMAIN docs : docs[i].file = files[i]
    /\ Len(docs) < Len(files) => ENABLED NextBatch
    /\ successful_files =
           Cardinality({i \in DOMAIN docs : docs[i].ret # None /\ docs[i].upsert_ret})
    /\ successful_files <= Len(files)

\* The first file ended in an exception of the aspect extraction or in a
\* failed store write, and the second was processed and counted.
C20_Witness ==
    /\ Len(files) = 2 /\ Len(docs) = 2
    /\ docs[1].reason = "exception"
    /\ docs[2].ret # None /\ docs[2].upsert_ret
    /\ successful_files = 1

\* The document handled at turn i has a row in every sheet of the vocabulary.
HasStoreRow(i) ==
    /\ docs[i].upsert_ret
    /\ docs[i].post.state = "ok"
    /\ \A s \in DOMAIN dict_of(vocab) :
          /\ s \in DOMAIN docs[i].post.sheets
          /\ \E k \in DOMAIN docs[i].post.sheets[s].rows :
                docs[i].post.sheets[s].rows[k][IDCol].ds = docs[i].ret[1].id

\* C21: once the batch has handled a document, either its JSON artifact and
\* its store row both exist, or neither does and the document was skipped with
\* a reason; no document ends with a JSON artifact and no store row.
C21_ArtifactAndRowTogether ==
    \A i \in DOMAIN docs :
        /\ docs[i].artifact # <<>> => HasStoreRow(i)
        /\ docs[i].artifact = <<>> => (docs[i].upsert_calls = 0 /\ docs[i].reason # "")

\* C23: for one document the batch makes at most one reconciliation call with
\* at most one fusion call, at most one aspect-extraction call and at most one
\* upsert; a failed fusion call is not issued again, the text becomes the
\* failure message instead.
C23_NoCallRepeated ==
    \A i \in DOMAIN docs :
        /\ docs[i].ocr_calls <= 1
        /\ docs[i].fusion_calls <= 1
        /\ docs[i].extract_calls <= 1
        /\ docs[i].upsert_calls <= 1
        /\ docs[i].fusion_calls <= docs[i].ocr_calls
        /\ docs[i].upsert_calls <= docs[i].extract_calls
        /\ docs[i].extract_calls <= docs[i].ocr_calls

\* The fusion call of a document raised: it was made once, and the text of the
\* document is the failure message, handed on to the aspect extraction.
C23_Witness ==
    \E i \in DOMAIN docs :
        /\ docs[i].fusion_calls = 1
        /\ docs[i].ocr_text = ErrorCombining
        /\ docs[i].extract_calls = 1
        /\ docs[i].upsert_calls = 1

\* The documents of the batch whose upsert returned True.
Stored == {i \in DOMAIN docs : docs[i].upsert_ret}

\* C30: starting from a missing store, after a batch in which every store
\* write succeeded, each vocabulary sheet has as many rows as there are
\* distinct IDs among the documents stored: two documents with the same first
\* digit run share one row, which holds the File Type and the field values of
\* the one processed last.
C30_OneRowPerDistinctId ==
    (/\ Len(docs) = Len(files)
     /\ Stored # {}
     /\ \A i \in DOMAIN docs : docs[i].upsert_calls = 1 => docs[i].upsert_ret)
    => \A s \in DOMAIN dict_of(vocab) :
          /\ store.state = "ok"
          /\ s \in DOMAIN store.sheets
          /\ Len(store.sheets[s].rows) = Cardinality({docs[i].ret[1].id : i \in Stored})
          /\ \A i \in Stored :
                (\A j \in Stored : j > i => docs[j].ret[1].id # docs[i].ret[1].id)
                => \E k \in DOMAIN store.sheets[s].rows :
                      /\ CellText(IDCol, store.sheets[s].rows[k][IDCol]) = docs[i].ret[1].id
                      /\ store.sheets[s].rows[k][FTCol] = docs[i].ret[1].file_type

====
